---- MODULE Spec2Model ----
(***************************************************************************)
(* The template re-indentation engine of go-formatter (src/main.go):       *)
(* formatAngularTemplate and the line expander expandLineWithIndent.       *)
(*                                                                         *)
(* A Go string is modelled as a sequence of one-character strings.  Go     *)
(* indices are 0-based and are kept 0-based here: CharAt(s, i) is s[i].    *)
(* One action models one branch of the per-line loop of                    *)
(* formatAngularTemplate, or one iteration of the scan loop of             *)
(* expandLineWithIndent.                                                   *)
(***************************************************************************)
EXTENDS Integers, Sequences, FiniteSets, TLC

VARIABLES
    content,      \* the text handed to formatAngularTemplate
    lines,        \* strings.Split(content, "\n")
    li,           \* number of lines of `lines` already processed
    result,       \* formatAngularTemplate's result slice
    depth,        \* formatAngularTemplate's running depth
    inComment,    \* formatAngularTemplate's comment mode
    pc,           \* "line" | "scan" | "done" | "panic"
    i,            \* expandLineWithIndent: scan index
    localDepth,   \* expandLineWithIndent: local depth offset
    currentLine,  \* expandLineWithIndent: pending text buffer
    expanded,     \* expandLineWithIndent: its result slice
    output,       \* the string formatAngularTemplate returned
    pass          \* 1: first run over the file, 2: run over the first run's output

vars == <<content, lines, li, result, depth, inComment, pc, i, localDepth,
          currentLine, expanded, output, pass>>

-----------------------------------------------------------------------------
(* Strings *)

NL == "\n"
TAB == "\t"
CR == "\r"
SP == " "

\* The character returned for an index outside the string (Go panics there).
NoChar == "<none>"

CharAt(s, k) == IF k >= 0 /\ k < Len(s) THEN s[k + 1] ELSE NoChar

\* s[a:b] of Go
Slice(s, a, b) == SubSeq(s, a + 1, b)

Max(a, b) == IF a >= b THEN a ELSE b

RECURSIVE Flatten(_)
Flatten(ss) == IF ss = <<>> THEN <<>> ELSE Head(ss) \o Flatten(Tail(ss))

Contains(s, sub) ==
    \E k \in 0..(Len(s) - Len(sub)) : Slice(s, k, k + Len(sub)) = sub

HasPrefix(s, p) == Len(s) >= Len(p) /\ Slice(s, 0, Len(p)) = p

RECURSIVE Repeat(_, _)
Repeat(s, n) == IF n <= 0 THEN <<>> ELSE s \o Repeat(s, n - 1)

\* unicode.IsSpace restricted to the characters of the model
IsSpace(c) == c \in {SP, TAB, CR, NL}

RECURSIVE TrimLeft(_)
TrimLeft(s) ==
    IF s # <<>> /\ IsSpace(Head(s)) THEN TrimLeft(Tail(s)) ELSE s

RECURSIVE TrimRight(_)
TrimRight(s) ==
    IF s # <<>> /\ IsSpace(s[Len(s)]) THEN TrimRight(Slice(s, 0, Len(s) - 1)) ELSE s

TrimSpace(s) == TrimRight(TrimLeft(s))

\* the 0-based indices of the line breaks of s, and the n-th of them in order
Breaks(s) == {k \in 0..(Len(s) - 1) : CharAt(s, k) = NL}
NthBreak(s, n) ==
    IF n = 0 THEN -1
    ELSE IF n > Cardinality(Breaks(s)) THEN Len(s)
    ELSE CHOOSE k \in Breaks(s) : Cardinality({j \in Breaks(s) : j < k}) = n - 1

\* strings.Split(s, "\n")
Split(s) ==
    [n \in 1..(Cardinality(Breaks(s)) + 1) |->
        Slice(s, NthBreak(s, n - 1) + 1, NthBreak(s, n))]

RECURSIVE Join(_)
\* strings.Join(ls, "\n")
Join(ls) ==
    IF ls = <<>> THEN <<>>
    ELSE IF Len(ls) = 1 THEN ls[1]
    ELSE ls[1] \o <<NL>> \o Join(Tail(ls))

-----------------------------------------------------------------------------
(* Literals of the source *)

indentUnit == <<" ", " ", " ", " ">>

AtIf == <<"@", "i", "f">>
AtElseIf == <<"@", "e", "l", "s", "e", " ", "i", "f">>
AtElse == <<"@", "e", "l", "s", "e">>
AtSwitch == <<"@", "s", "w", "i", "t", "c", "h">>
AtCase == <<"@", "c", "a", "s", "e">>
AtDefault == <<"@", "d", "e", "f", "a", "u", "l", "t">>
AtFor == <<"@", "f", "o", "r">>
AtEmpty == <<"@", "e", "m", "p", "t", "y">>

directives == <<AtIf, AtElseIf, AtElse, AtSwitch, AtCase, AtDefault, AtFor, AtEmpty>>

CommentStart == <<"<", "!", "-", "-">>
CommentEnd == <<"-", "-", ">">>

-----------------------------------------------------------------------------
(* Helpers of the formatter *)

\* a variant of extractIndent that drops the leading blanks
extractIndentNone(line) == <<>>

RECURSIVE IndentLen(_, _)
IndentLen(line, k) ==
    IF k < Len(line) /\ CharAt(line, k) \in {SP, TAB} THEN IndentLen(line, k + 1) ELSE k

extractIndent(line) ==
    IF IndentLen(line, 0) >= Len(line) THEN <<>> ELSE Slice(line, 0, IndentLen(line, 0))

isControlFlowLine(t) ==
    \/ /\ \/ Contains(t, AtFor)
          \/ Contains(t, AtIf)
          \/ Contains(t, AtElse)
          \/ Contains(t, AtSwitch)
       /\ Contains(t, <<"{">>)
    \/ Contains(t, <<"}", " ", "@">>)

needsExpand(t) ==
    \/ Contains(t, <<"@">>) /\ isControlFlowLine(t)
    \/ Contains(t, <<"}", " ", "}">>)

DirectiveBoundary(next) == next \in {SP, "(", "{", NL, TAB}

isControlFlowDirective(s) ==
    \E n \in 1..Len(directives) :
        /\ HasPrefix(s, directives[n])
        /\ \/ Len(s) = Len(directives[n])
           \/ DirectiveBoundary(CharAt(s, Len(directives[n])))

RECURSIVE ExtractLoopFirstParen(_, _, _, _, _)
\* a variant of the loop of extractDirective that ends the directive at the first )
ExtractLoopFirstParen(line, start, k, parenDepth, inParens) ==
    IF k >= Len(line) THEN <<TrimSpace(Slice(line, start, Len(line))), Len(line)>>
    ELSE IF CharAt(line, k) = "(" THEN ExtractLoopFirstParen(line, start, k + 1, parenDepth + 1, TRUE)
    ELSE IF CharAt(line, k) = ")" THEN <<Slice(line, start, k + 1), k + 1>>
    ELSE IF CharAt(line, k) = "{" /\ parenDepth = 0
        THEN <<TrimSpace(Slice(line, start, k)), k>>
    ELSE ExtractLoopFirstParen(line, start, k + 1, parenDepth, inParens)

RECURSIVE ExtractLoop(_, _, _, _, _)
ExtractLoop(line, start, k, parenDepth, inParens) ==
    IF k >= Len(line) THEN <<TrimSpace(Slice(line, start, Len(line))), Len(line)>>
    ELSE IF CharAt(line, k) = "(" THEN ExtractLoop(line, start, k + 1, parenDepth + 1, TRUE)
    ELSE IF CharAt(line, k) = ")" THEN
        IF parenDepth - 1 = 0 /\ inParens
        THEN <<Slice(line, start, k + 1), k + 1>>
        ELSE ExtractLoop(line, start, k + 1, parenDepth - 1, inParens)
    ELSE IF CharAt(line, k) = "{" /\ parenDepth = 0
        THEN <<TrimSpace(Slice(line, start, k)), k>>
    ELSE ExtractLoop(line, start, k + 1, parenDepth, inParens)

\* returns <<directive, newPos>>
extractDirective(line, start) == ExtractLoop(line, start, start, 0, FALSE)

\* a variant of depthIndent that leaves the line's own leading blanks out
depthIndentNoOriginal(originalIndent, d) == Repeat(indentUnit, Max(d, 0))

depthIndent(originalIndent, d) == Repeat(indentUnit, Max(d, 0)) \o originalIndent

\* a variant of flushWithDepth that loses the pending text
flushWithDepthDrop(res, cur, originalIndent, d) == res

flushWithDepth(res, cur, originalIndent, d) ==
    IF TrimSpace(cur) # <<>>
    THEN Append(res, depthIndent(originalIndent, d) \o TrimSpace(cur))
    ELSE res

\* a variant of the look-ahead guard that lets the look-ahead read past the end
HasNextAlways(s, k) == TRUE

\* the guard i+1 < len(trimmed) of the two-character look-ahead
HasNext(s, k) == k + 1 < Len(s)

RECURSIVE SkipBlanks(_, _)
SkipBlanks(s, k) ==
    IF k < Len(s) /\ CharAt(s, k) \in {SP, TAB} THEN SkipBlanks(s, k + 1) ELSE k

RECURSIVE InterpEnd(_, _)
\* the inner loop of the interpolation branch, entered at index k: the index it ends at
InterpEnd(s, k) ==
    IF k >= Len(s) THEN k
    ELSE IF CharAt(s, k) = "}" /\ HasNext(s, k) /\ CharAt(s, k + 1) = "}" THEN k + 2
    ELSE InterpEnd(s, k + 1)

\* a variant of the clamp that lets the local depth fall below -depth
ClampLocalOff(d, ld) == ld

\* the clamp of the local depth after a decrement
ClampLocal(d, ld) == IF d + ld < 0 THEN -d ELSE ld

\* the clamp of the running depth after a decrement
ClampDepth(d) == IF d < 0 THEN 0 ELSE d

-----------------------------------------------------------------------------
(* The per-line state of formatAngularTemplate *)

originalLine == lines[li + 1]
trimmed == TrimSpace(originalLine)
originalIndent == extractIndent(originalLine)

AtLine == pc = "line" /\ li < Len(lines)
Scanning == pc = "scan" /\ i < Len(trimmed)

NextLine == /\ li' = li + 1
            /\ UNCHANGED <<content, lines, pc, i, localDepth, currentLine, expanded,
                           output, pass>>

\* the indices a test  s[k] == c && k+1 < len(s) && s[k+1] == c  reads
PairReads(s, k, c) == {k} \cup (IF CharAt(s, k) = c /\ HasNext(s, k) THEN {k + 1} ELSE {})

RECURSIVE InterpReads(_, _)
\* the indices the inner loop of the interpolation branch reads from index k on
InterpReads(s, k) ==
    IF k >= Len(s) THEN {}
    ELSE PairReads(s, k, "}") \cup
         (IF CharAt(s, k) = "}" /\ HasNext(s, k) /\ CharAt(s, k + 1) = "}"
          THEN {} ELSE InterpReads(s, k + 1))

\* the indices isControlFlowDirective reads of s (the byte after a matched keyword)
DirectiveReads(s) ==
    {Len(directives[n]) : n \in {m \in 1..Len(directives) :
        HasPrefix(s, directives[m]) /\ Len(s) # Len(directives[m])}}

InRange(s, reads) == \A k \in reads : k >= 0 /\ k < Len(s)

Panic == /\ pc' = "panic"
         /\ UNCHANGED <<content, lines, li, result, depth, inComment, i, localDepth,
                        currentLine, expanded, output, pass>>

-----------------------------------------------------------------------------
(* formatAngularTemplate: one action per branch of the loop body *)

BlankLine ==
    /\ AtLine
    /\ trimmed = <<>>
    /\ result' = Append(result, <<>>)
    /\ UNCHANGED <<depth, inComment>>
    /\ NextLine

CommentOpen ==
    /\ AtLine
    /\ trimmed # <<>>
    /\ Contains(trimmed, CommentStart) /\ ~Contains(trimmed, CommentEnd)
    /\ inComment' = TRUE
    /\ result' = Append(result, originalLine)
    /\ UNCHANGED depth
    /\ NextLine

CommentLine ==
    /\ AtLine
    /\ trimmed # <<>>
    /\ ~(Contains(trimmed, CommentStart) /\ ~Contains(trimmed, CommentEnd))
    /\ inComment
    /\ result' = Append(result, originalLine)
    /\ inComment' = IF Contains(trimmed, CommentEnd) THEN FALSE ELSE inComment
    /\ UNCHANGED depth
    /\ NextLine

\* none of the blank and comment branches took the line
PastComment ==
    /\ AtLine
    /\ trimmed # <<>>
    /\ ~(Contains(trimmed, CommentStart) /\ ~Contains(trimmed, CommentEnd))
    /\ ~inComment

CloseBraceLine ==
    /\ PastComment
    /\ ~needsExpand(trimmed)
    /\ trimmed = <<"}">>
    /\ depth' = ClampDepth(depth - 1)
    /\ result' = Append(result, Repeat(indentUnit, depth') \o originalIndent \o trimmed)
    /\ UNCHANGED inComment
    /\ NextLine

\* a variant of the regular-line branch that leaves the depth indent out
RegularLineNoDepth ==
    /\ PastComment
    /\ ~needsExpand(trimmed)
    /\ trimmed # <<"}">>
    /\ result' = Append(result, originalIndent \o trimmed)
    /\ UNCHANGED <<depth, inComment>>
    /\ NextLine

RegularLine ==
    /\ PastComment
    /\ ~needsExpand(trimmed)
    /\ trimmed # <<"}">>
    /\ result' = Append(result, Repeat(indentUnit, depth) \o originalIndent \o trimmed)
    /\ UNCHANGED <<depth, inComment>>
    /\ NextLine

\* the call expandLineWithIndent(trimmed, originalIndent, depth): its locals are set up
BeginExpand ==
    /\ PastComment
    /\ needsExpand(trimmed)
    /\ pc' = "scan"
    /\ i' = 0
    /\ localDepth' = 0
    /\ currentLine' = <<>>
    /\ expanded' = <<>>
    /\ UNCHANGED <<content, lines, li, result, depth, inComment, output, pass>>

-----------------------------------------------------------------------------
(* expandLineWithIndent: one action per branch of the scan loop *)

ScanFrame == UNCHANGED <<content, lines, li, result, depth, inComment, pc, output, pass>>

\* trimmed[i:]
rest == Slice(trimmed, i, Len(trimmed))

IsInterpolation == CharAt(trimmed, i) = "{" /\ HasNext(trimmed, i) /\ CharAt(trimmed, i + 1) = "{"
IsDirective == CharAt(trimmed, i) = "@" /\ isControlFlowDirective(rest)

\* every index the tests of one loop iteration read lies inside the string they read
ReadsOk ==
    /\ InRange(trimmed, PairReads(trimmed, i, "{"))
    /\ IsInterpolation => InRange(trimmed, InterpReads(trimmed, i + 2))
    /\ (~IsInterpolation /\ CharAt(trimmed, i) = "@") => InRange(rest, DirectiveReads(rest))
    /\ (~IsInterpolation /\ IsDirective) => extractDirective(trimmed, i)[2] <= Len(trimmed)

ScanInterpolation ==
    /\ Scanning
    /\ IsInterpolation
    /\ IF ReadsOk
       THEN /\ currentLine' = currentLine \o Slice(trimmed, i, InterpEnd(trimmed, i + 2))
            /\ i' = InterpEnd(trimmed, i + 2)
            /\ UNCHANGED <<localDepth, expanded>>
            /\ ScanFrame
       ELSE Panic

ScanDirective ==
    /\ Scanning
    /\ ~IsInterpolation
    /\ IsDirective
    /\ LET flushed == flushWithDepth(expanded, currentLine, originalIndent, depth + localDepth)
           ext == extractDirective(trimmed, i)
           directive == ext[1]
           newPos == ext[2]
           withDir == Append(flushed, depthIndent(originalIndent, depth + localDepth) \o directive)
           brace == SkipBlanks(trimmed, newPos)
       IN IF ReadsOk
          THEN /\ currentLine' = <<>>
               /\ IF brace < Len(trimmed) /\ CharAt(trimmed, brace) = "{"
                  THEN /\ expanded' = Append(withDir, depthIndent(originalIndent, depth + localDepth) \o <<"{">>)
                       /\ localDepth' = localDepth + 1
                       /\ i' = SkipBlanks(trimmed, brace + 1)
                  ELSE /\ expanded' = withDir
                       /\ localDepth' = localDepth
                       /\ i' = brace
               /\ ScanFrame
          ELSE Panic

\* a variant of the closing-brace branch that emits the brace at the depth before the decrement
ScanCloseBraceLate ==
    /\ Scanning
    /\ ~IsInterpolation
    /\ ~IsDirective
    /\ CharAt(trimmed, i) = "}"
    /\ IF ReadsOk
       THEN /\ localDepth' = ClampLocal(depth, localDepth - 1)
            /\ expanded' = Append(flushWithDepth(expanded, currentLine, originalIndent, depth + localDepth),
                                  depthIndent(originalIndent, depth + localDepth) \o <<"}">>)
            /\ currentLine' = <<>>
            /\ i' = SkipBlanks(trimmed, i + 1)
            /\ ScanFrame
       ELSE Panic

ScanCloseBrace ==
    /\ Scanning
    /\ ~IsInterpolation
    /\ ~IsDirective
    /\ CharAt(trimmed, i) = "}"
    /\ IF ReadsOk
       THEN /\ localDepth' = ClampLocal(depth, localDepth - 1)
            /\ expanded' = Append(flushWithDepth(expanded, currentLine, originalIndent, depth + localDepth),
                                  depthIndent(originalIndent, depth + localDepth') \o <<"}">>)
            /\ currentLine' = <<>>
            /\ i' = SkipBlanks(trimmed, i + 1)
            /\ ScanFrame
       ELSE Panic

ScanOpenBrace ==
    /\ Scanning
    /\ ~IsInterpolation
    /\ ~IsDirective
    /\ CharAt(trimmed, i) = "{"
    /\ IF ReadsOk
       THEN /\ expanded' = Append(flushWithDepth(expanded, currentLine, originalIndent, depth + localDepth),
                                  depthIndent(originalIndent, depth + localDepth) \o <<"{">>)
            /\ localDepth' = localDepth + 1
            /\ currentLine' = <<>>
            /\ i' = SkipBlanks(trimmed, i + 1)
            /\ ScanFrame
       ELSE Panic

ScanChar ==
    /\ Scanning
    /\ ~IsInterpolation
    /\ ~IsDirective
    /\ CharAt(trimmed, i) \notin {"}", "{"}
    /\ IF ReadsOk
       THEN /\ currentLine' = Append(currentLine, CharAt(trimmed, i))
            /\ i' = i + 1
            /\ UNCHANGED <<localDepth, expanded>>
            /\ ScanFrame
       ELSE Panic

\* the scan loop has ended: the final flush, the fallback, the return, and the
\* caller's append of expanded.lines and adoption of expanded.finalDepth
EndExpand ==
    /\ pc = "scan"
    /\ i >= Len(trimmed)
    /\ LET flushed == flushWithDepth(expanded, currentLine, originalIndent, depth + localDepth)
           final == IF Len(flushed) = 0
                    THEN <<depthIndent(originalIndent, depth) \o trimmed>>
                    ELSE flushed
       IN /\ result' = result \o final
          /\ expanded' = final
    /\ depth' = depth + localDepth
    /\ li' = li + 1
    /\ pc' = "line"
    /\ i' = 0
    /\ localDepth' = 0
    /\ currentLine' = <<>>
    /\ UNCHANGED <<content, lines, inComment, output, pass>>

\* the loop over the lines has ended: return strings.Join(result, "\n")
Return ==
    /\ pc = "line"
    /\ li >= Len(lines)
    /\ output' = Join(result)
    /\ pc' = "done"
    /\ UNCHANGED <<content, lines, li, result, depth, inComment, i, localDepth,
                   currentLine, expanded, pass>>

\* the tool is run again over the file it has just written
RunAgain ==
    /\ pc = "done"
    /\ pass = 1
    /\ pass' = 2
    /\ content' = output
    /\ lines' = Split(output)
    /\ li' = 0
    /\ result' = <<>>
    /\ depth' = 0
    /\ inComment' = FALSE
    /\ pc' = "line"
    /\ i' = 0
    /\ localDepth' = 0
    /\ currentLine' = <<>>
    /\ expanded' = <<>>
    /\ output' = <<>>

Next ==
    \/ BlankLine
    \/ CommentOpen
    \/ CommentLine
    \/ CloseBraceLine
    \/ RegularLine
    \/ BeginExpand
    \/ ScanInterpolation
    \/ ScanDirective
    \/ ScanCloseBrace
    \/ ScanOpenBrace
    \/ ScanChar
    \/ EndExpand
    \/ Return
    \/ RunAgain

-----------------------------------------------------------------------------
(* Inputs *)

MaxToks == 3
MaxOpen == 1
MaxLines == 3
MaxCond == 4
MaxDepth == 3
MaxClosers == 3

SeqsUpTo(S, n) == UNION {[1..k -> S] : k \in 0..n}

Interp == <<"{", "{", "a", "}", "}">>
OpenerLine == AtIf \o <<" ", "(", "x", ")", " ", "{">>

Frags == {AtIf, AtCase, Interp, <<"{">>, <<"}">>, <<" ">>, <<"a">>}

\* k block openers, then one line made of at most MaxToks fragments
GenDocs ==
    {[m \in 1..k |-> OpenerLine] \o <<Flatten(fs)>> :
        k \in 0..MaxOpen, fs \in SeqsUpTo(Frags, MaxToks)}

SampleLines ==
    { OpenerLine,
      <<"}">>,
      <<"}", " ", "}">>,
      <<" ">> \o CommentStart \o <<" ", "a", " ">>,
      <<"b", " ">> \o CommentEnd,
      <<" ", " ">>,
      CommentStart \o <<" ">> \o AtIf \o <<" ", "{", " ">> \o CommentEnd }

\* at most MaxLines lines, each one of SampleLines
LineDocs == SeqsUpTo(SampleLines, MaxLines)

\* a directive with any condition text of at most MaxCond characters, then a brace
CondDocs ==
    {<<AtIf \o <<" ">> \o c \o ws \o <<"{">>>> :
        c \in SeqsUpTo({"(", ")", "a", "{"}, MaxCond), ws \in {<<>>, <<" ", " ">>}}

RECURSIVE Closers(_)
Closers(n) == IF n <= 1 THEN <<"}">> ELSE <<"}", " ">> \o Closers(n - 1)

\* d block openers, then one line of n closing braces
CloserDocs ==
    {[m \in 1..d |-> OpenerLine] \o <<ind \o Closers(n)>> :
        d \in 0..MaxDepth, n \in 2..MaxClosers, ind \in {<<>>, <<" ", " ">>}}

IfElseDoc ==
    << AtIf \o <<" ", "(", "x", ")", " ", "{">>,
       <<" ", " ", "<", "p", ">", "h", "i", "<", "/", "p", ">">>,
       <<"}", " ">> \o AtElse \o <<" ", "{">>,
       <<" ", " ", "<", "p", ">", "b", "y", "e", "<", "/", "p", ">">>,
       <<"}">> >>

NestedParenLine ==
    AtIf \o <<" ", "(", "i", "s", "V", "a", "l", "i", "d", "(", "a", ",", " ",
              "(", "b", "+", "c", ")", ")", ")", " ", " ", "{">>

UserNameLine ==
    <<"<", "d", "i", "v", ">", "{", "{", " ", "u", "s", "e", "r", ".", "n", "a", "m", "e",
      " ", "}", "}", "<", "/", "d", "i", "v", ">">>

ScenarioDocs ==
    { IfElseDoc,
      <<NestedParenLine>>,
      <<UserNameLine>>,
      <<OpenerLine, UserNameLine, <<"}">>>>,
      <<OpenerLine \o <<CR>>, <<" ", "a", CR>>, <<"}", CR>>>> }

Inputs == {Join(d) : d \in GenDocs \cup LineDocs \cup CondDocs \cup CloserDocs \cup ScenarioDocs}

Init ==
    /\ content \in Inputs
    /\ lines = Split(content)
    /\ li = 0
    /\ result = <<>>
    /\ depth = 0
    /\ inComment = FALSE
    /\ pc = "line"
    /\ i = 0
    /\ localDepth = 0
    /\ currentLine = <<>>
    /\ expanded = <<>>
    /\ output = <<>>
    /\ pass = 1

Spec == Init /\ [][Next]_vars

-----------------------------------------------------------------------------
(* Properties *)

Returned == pc = "done"
FirstRun == pc = "done" /\ pass = 1

\* C1: idempotence: formatting the output of a run again returns it unchanged.
\* In the second run `content` is the first run's output.
C1_Idempotent == (Returned /\ pass = 2) => output = content

RECURSIVE Tokens(_, _)
\* the structural tokens of a line from index k on, told apart as the line
\* expander tells them apart: text from {{ to the next }} is skipped, a
\* directive head with its condition is one token, every other brace is one token
Tokens(s, k) ==
    IF k >= Len(s) THEN <<>>
    ELSE IF CharAt(s, k) = "{" /\ CharAt(s, k + 1) = "{" THEN Tokens(s, InterpEnd(s, k + 2))
    ELSE IF CharAt(s, k) = "@" /\ isControlFlowDirective(Slice(s, k, Len(s)))
        THEN <<"head">> \o Tokens(s, extractDirective(s, k)[2])
    ELSE IF CharAt(s, k) = "{" THEN <<"open">> \o Tokens(s, k + 1)
    ELSE IF CharAt(s, k) = "}" THEN <<"close">> \o Tokens(s, k + 1)
    ELSE Tokens(s, k + 1)

HasHead(s) == \E n \in 1..Len(Tokens(s, 0)) : Tokens(s, 0)[n] = "head"

\* C2: brace-per-line: no line of the output holds more than one structural
\* token (opening brace, closing brace, directive head).  Text inside {{ }}
\* does not count, and every line that holds no directive head is taken as a
\* plain content line, which the claim excepts.  Stated for inputs without
\* comments.
C2_BracePerLine ==
    (FirstRun /\ ~Contains(content, CommentStart)) =>
        \A n \in 1..Len(result) : HasHead(result[n]) => Len(Tokens(result[n], 0)) = 1

\* the interpolation spans of a line: from a {{ that is a run of exactly two
\* opening braces to the first }} after it
SpanStarts(s) ==
    {x \in 0..(Len(s) - 2) : /\ Slice(s, x, x + 2) = <<"{", "{">>
                             /\ CharAt(s, x - 1) # "{"
                             /\ CharAt(s, x + 2) # "{"}

SpanEnd(s, x) ==
    IF Contains(Slice(s, x + 2, Len(s)), <<"}", "}">>) THEN InterpEnd(s, x + 2) ELSE -1

InterpolationsOf(s) ==
    {Slice(s, x, SpanEnd(s, x)) : x \in {y \in SpanStarts(s) : SpanEnd(s, y) >= 0}}

\* C3: interpolation preservation: every {{ expr }} span of an input line is a
\* substring of some line of the output.
C3_InterpolationPreserved ==
    FirstRun =>
        \A n \in 1..Len(lines) : \A sp \in InterpolationsOf(lines[n]) :
            \E m \in 1..Len(result) : Contains(result[m], sp)

\* a single-line comment: the text of the line starts with <!-- and ends with -->
IsCommentLine(t) ==
    /\ HasPrefix(t, CommentStart)
    /\ Len(t) >= Len(CommentStart) + Len(CommentEnd)
    /\ Slice(t, Len(t) - Len(CommentEnd), Len(t)) = CommentEnd

\* the line being processed lies within a comment: inside a span that an earlier
\* line opened, the line that opens a span, or a single-line comment
WithinComment ==
    \/ inComment
    \/ Contains(trimmed, CommentStart) /\ ~Contains(trimmed, CommentEnd)
    \/ IsCommentLine(trimmed)

\* a step that completes the processing of a line of the first run
LineDone == pc \in {"line", "scan"} /\ li < Len(lines) /\ li' = li + 1 /\ pass = 1

\* C4: comment preservation: a line lying within an HTML comment (single-line,
\* or any line of a multi-line span, whitespace-only lines included) is emitted
\* unchanged as one line, and the running depth stays as it was.
C4_CommentPreserved ==
    [][(LineDone /\ WithinComment) =>
            (result' = Append(result, originalLine) /\ depth' = depth)]_vars

\* C5: depth non-negativity: the running depth and the effective depth
\* depth + localDepth are never negative, after every line and every token.
C5_DepthNonNegative == depth >= 0 /\ depth + localDepth >= 0

\* a closing brace met at depth 0 as the first token of an expanded line
C5_ClampedAtZero ==
    /\ pc = "scan"
    /\ depth = 0
    /\ localDepth = 0
    /\ i > 0
    /\ expanded = <<originalIndent \o <<"}">>>>

\* the {{ at the scan index has no }} after it
Unterminated == IsInterpolation /\ ~Contains(Slice(trimmed, i + 2, Len(trimmed)), <<"}", "}">>)

\* one more step of a call of formatAngularTemplate that has not returned: it
\* completes a line, or enters the scan of the line, or moves the scan index
\* forward inside the line, or returns once no line is left
Progress ==
    \/ li' = li + 1 /\ li' <= Len(lines) /\ pc' = "line"
    \/ li' = li /\ pc = "line" /\ pc' = "scan" /\ i' = 0
    \/ li' = li /\ pc = "scan" /\ pc' = "scan" /\ i' > i /\ i' <= Len(trimmed)
    \/ li' = li /\ pc = "line" /\ li = Len(lines) /\ pc' = "done"

\* C6: the engine never fails and always terminates: no index is read outside
\* its string; while a call has not returned a step is always possible, and
\* every step completes a line or moves the scan index strictly forward inside
\* the line (so the call returns after the last line); an unterminated {{ sends
\* the rest of the line to the pending text without emitting a token.
C6_NeverFailsAlwaysTerminates ==
    /\ [](pc # "panic")
    /\ [](pc \in {"line", "scan"} => ENABLED Next)
    /\ [][(pc \in {"line", "scan"}) => Progress]_vars
    /\ [][(pc = "scan" /\ Unterminated) =>
            /\ pc' = "scan"
            /\ i' = Len(trimmed)
            /\ currentLine' = currentLine \o rest
            /\ expanded' = expanded
            /\ localDepth' = localDepth]_vars

\* an unterminated {{ has been copied to the pending text, up to the end of the line
C6_UnterminatedCopied ==
    /\ pc = "scan"
    /\ i = Len(trimmed)
    /\ Contains(currentLine, <<"{", "{">>)
    /\ ~Contains(trimmed, <<"}", "}">>)

PHi == <<"<", "p", ">", "h", "i", "<", "/", "p", ">">>
PBye == <<"<", "p", ">", "b", "y", "e", "<", "/", "p", ">">>

\* C7 as the scenario states it: each content line is indented by one indent unit.
C7_IfElseAsStated ==
    (FirstRun /\ lines = IfElseDoc) =>
        result = << AtIf \o <<" ", "(", "x", ")">>, <<"{">>, indentUnit \o PHi, <<"}">>,
                    AtElse, <<"{">>, indentUnit \o PBye, <<"}">> >>

\* C7 (amended): the if/else scenario returns the eight lines @if (x), {, the
\* first content line, }, @else, {, the second content line, }, with heads and
\* braces unindented and each content line indented by one indent unit followed
\* by the two spaces it had in the input.
C7_IfElseScenario ==
    (FirstRun /\ lines = IfElseDoc) =>
        result = << AtIf \o <<" ", "(", "x", ")">>, <<"{">>,
                    indentUnit \o <<" ", " ">> \o PHi, <<"}">>,
                    AtElse, <<"{">>,
                    indentUnit \o <<" ", " ">> \o PBye, <<"}">> >>

C7_ScenarioRun == FirstRun /\ lines = IfElseDoc /\ Len(result) = 8

\* the number of c in s[a:b]
RECURSIVE Count(_, _, _, _)
Count(s, a, b, c) ==
    IF a >= b THEN 0 ELSE (IF CharAt(s, a) = c THEN 1 ELSE 0) + Count(s, a + 1, b, c)

\* s[open] is "(" and s[m] is the ")" that matches it
Matches(s, open, m) ==
    /\ CharAt(s, open) = "("
    /\ m > open
    /\ CharAt(s, m) = ")"
    /\ Count(s, open, m + 1, "(") = Count(s, open, m + 1, ")")
    /\ \A k \in open..(m - 1) : Count(s, open, k + 1, "(") > Count(s, open, k + 1, ")")

AllBlank(s) == \A k \in 1..Len(s) : s[k] \in {SP, TAB}

\* the line is a directive keyword, a blank, a parenthesised condition closed at
\* index m, blanks and an opening brace
IsParenDirective(s, m) ==
    /\ \E n \in 1..Len(directives) : HasPrefix(s, directives[n] \o <<" ", "(">>)
    /\ \E open \in 0..(Len(s) - 1) :
          /\ CharAt(s, open) = "("
          /\ ~Contains(Slice(s, 0, open), <<"(">>)
          /\ Matches(s, open, m)
    /\ Len(s) >= m + 2
    /\ s[Len(s)] = "{"
    /\ AllBlank(Slice(s, m + 1, Len(s) - 1))

\* C8: directive boundary with nested parentheses: for a directive whose
\* condition is a parenthesised expression followed by blanks and {,
\* extractDirective returns the text from @ through the ) matching the first (
\* and the index after it, and the line expands to that text and a line {.
C8_DirectiveBoundary ==
    (FirstRun /\ Len(lines) = 1) =>
        \A m \in 0..(Len(lines[1]) - 1) :
            IsParenDirective(lines[1], m) =>
                /\ extractDirective(lines[1], 0) = <<Slice(lines[1], 0, m + 1), m + 1>>
                /\ result = <<Slice(lines[1], 0, m + 1), <<"{">>>>

C8_NestedRun ==
    /\ FirstRun
    /\ lines = <<NestedParenLine>>
    /\ IsParenDirective(NestedParenLine, 22)
    /\ Len(result) = 2

\* the lines that n closing braces met at depth d give, the k-th at depth max(d-k, 0)
ClosedAt(ind, d, n) == [k \in 1..n |-> Repeat(indentUnit, Max(d - k, 0)) \o ind \o <<"}">>]

\* the maximal run of blanks and tabs a line starts with
LeadingBlanks(s) ==
    LET n == CHOOSE k \in 0..Len(s) :
                /\ \A j \in 1..k : s[j] \in {SP, TAB}
                /\ k < Len(s) => s[k + 1] \notin {SP, TAB}
    IN IF n = Len(s) THEN <<>> ELSE SubSeq(s, 1, n)

\* the line is neither inside a comment span nor the line that opens one
OutsideComment ==
    ~inComment /\ ~(Contains(trimmed, CommentStart) /\ ~Contains(trimmed, CommentEnd))

\* C9: multiple closers on one line: a line whose trimmed text is n >= 2 closing
\* braces separated by single blanks, reached outside a comment at running
\* depth d, gives one line per brace holding only that brace, the k-th at depth
\* max(d-k, 0), and leaves the running depth at max(d-n, 0).
C9_MultipleClosers ==
    [][(LineDone /\ OutsideComment /\ \E n \in 2..MaxClosers : trimmed = Closers(n)) =>
            \E n \in 2..MaxClosers :
                /\ trimmed = Closers(n)
                /\ result' = result \o ClosedAt(LeadingBlanks(originalLine), depth, n)
                /\ depth' = Max(depth - n, 0)]_vars

\* three closers met at depth 2: the last one is clamped at depth 0
C9_ThreeClosersAtTwo ==
    /\ pc = "line"
    /\ pass = 1
    /\ li = 3
    /\ lines = <<OpenerLine, OpenerLine, Closers(3)>>
    /\ depth = 0
    /\ SubSeq(result, 5, 7) = <<indentUnit \o <<"}">>, <<"}">>, <<"}">>>>

\* C10: ordinary-line pass-through: a non-blank line outside comment mode that
\* is not routed to the expansion and is not exactly } gives exactly one output
\* line: the indent unit repeated running-depth times, the line's leading blanks
\* and its trimmed text (any {{ }} in it untouched); the running depth is unchanged.
C10_OrdinaryLine ==
    [][(LineDone /\ trimmed # <<>> /\ OutsideComment /\ ~needsExpand(trimmed)
            /\ trimmed # <<"}">>) =>
            /\ result' = Append(result, Repeat(indentUnit, depth)
                                        \o LeadingBlanks(originalLine) \o trimmed)
            /\ depth' = depth]_vars

\* the line <div>{{ user.name }}</div> passed through inside one open block
C10_UserNameInBlock ==
    /\ pc = "line"
    /\ pass = 1
    /\ li = 2
    /\ depth = 1
    /\ lines[2] = UserNameLine
    /\ result[3] = indentUnit \o UserNameLine

\* the text from index k on
From(t, k) == Slice(t, k, Len(t))

\* a recognized directive stands at some index of t with an opening brace after it
DirectiveWithBrace(t) ==
    \E k \in 0..(Len(t) - 1) :
        /\ CharAt(t, k) = "@"
        /\ isControlFlowDirective(From(t, k))
        /\ Contains(From(t, k), <<"{">>)

\* a non-blank line that is no comment line: outside a span, holding no comment opener
PlainLine ==
    /\ AtLine
    /\ pass = 1
    /\ trimmed # <<>>
    /\ OutsideComment
    /\ ~Contains(trimmed, CommentStart)

\* C11: routing to the expansion path: a non-blank, non-comment line is handed
\* to expandLineWithIndent exactly when it holds one of the eight recognized
\* directives with its opening brace on the same line (a } @directive { chain
\* included) or two closing braces } }; every other such line is not.
C11_Routing ==
    [][PlainLine =>
            ((DirectiveWithBrace(trimmed) \/ Contains(trimmed, <<"}", " ", "}">>))
                <=> pc' = "scan")]_vars

\* s starts with one of the eight keywords, followed by a blank, ( , { , a tab or nothing
KeywordAtBoundary(s) ==
    \E n \in 1..Len(directives) :
        /\ HasPrefix(s, directives[n])
        /\ \/ Len(s) = Len(directives[n])
           \/ s[Len(directives[n]) + 1] \in {SP, "(", "{", TAB}

\* a keyword stands somewhere in t and runs on into further text, as in @ifX
DirectiveLike(t) ==
    \E k \in 0..(Len(t) - 1) : \E n \in 1..Len(directives) :
        /\ HasPrefix(From(t, k), directives[n])
        /\ Len(From(t, k)) > Len(directives[n])
        /\ From(t, k)[Len(directives[n]) + 1] \notin {SP, "(", "{", TAB, NL}

\* no index of t starts a recognized directive
NoDirective(t) == \A k \in 0..(Len(t) - 1) : ~KeywordAtBoundary(From(t, k))

\* C12: word-boundary rule: the text the scan stands at is recognized as a
\* directive exactly when it starts with one of the eight keywords followed by
\* a blank, ( , { , a tab or the end of the text; and a non-blank, non-comment
\* line that holds directive-like text such as @ifX, no recognized directive
\* and no closing brace is treated as ordinary text: it gives one output line,
\* its own text behind the depth indent, and leaves the running depth alone.
C12_WordBoundary ==
    /\ [](Scanning => (isControlFlowDirective(rest) <=> KeywordAtBoundary(rest)))
    /\ [][(/\ LineDone
           /\ trimmed # <<>>
           /\ OutsideComment
           /\ ~Contains(trimmed, CommentStart)
           /\ DirectiveLike(trimmed)
           /\ NoDirective(trimmed)
           /\ ~Contains(trimmed, <<"}">>)) =>
              /\ result' = Append(result, Repeat(indentUnit, depth)
                                          \o LeadingBlanks(originalLine) \o trimmed)
              /\ depth' = depth]_vars

\* the effective depth of the expansion: start depth plus local depth
Effective == depth + localDepth

\* the indent unit e times, then the source line's own leading blanks
IndentAt(e) == Repeat(indentUnit, e) \o LeadingBlanks(originalLine)

\* the pending text as the line it is flushed to at depth e, if it is not blank
PendingAt(e) ==
    IF TrimSpace(currentLine) = <<>> THEN <<>> ELSE <<IndentAt(e) \o TrimSpace(currentLine)>>

\* the lines one step of the expansion adds
Emitted == SubSeq(expanded', Len(expanded) + 1, Len(expanded'))

\* the directive head at the scan position, and whether its { follows it
HeadHere == extractDirective(trimmed, i)[1]
BraceFollows ==
    LET k == SkipBlanks(trimmed, extractDirective(trimmed, i)[2])
    IN k < Len(trimmed) /\ CharAt(trimmed, k) = "{"

\* one token of the line is consumed by the scan
ScanStep == pc = "scan" /\ pc' = "scan" /\ i' # i

\* C13: indentation of expanded lines: with e the effective depth before a
\* token and w the source line's leading blanks, each step of the expansion adds
\* the pending text (if any) at depth e and then: for a directive, its head at
\* depth e and, when a { follows it, that { at depth e too, the depth becoming
\* e+1, and otherwise no brace and no depth change; for a standalone {, the
\* brace at depth e, the depth becoming e+1; for a }, the brace at depth
\* max(e-1, 0), which is the depth after it; for interpolation and other text,
\* nothing. Every added line is the indent unit repeated, then w, then the
\* token. The expansion ends by flushing the pending text at depth e, and the
\* depth it returns to the caller is e.
C13_ExpandedIndent ==
    /\ [][(ScanStep /\ (IsInterpolation \/ (~KeywordAtBoundary(rest)
                                             /\ CharAt(trimmed, i) \notin {"{", "}"}))) =>
              /\ expanded' = expanded
              /\ Effective' = Effective]_vars
    /\ [][(ScanStep /\ ~IsInterpolation /\ KeywordAtBoundary(rest)) =>
              IF BraceFollows
              THEN /\ Emitted = PendingAt(Effective)
                                  \o <<IndentAt(Effective) \o HeadHere, IndentAt(Effective) \o <<"{">>>>
                   /\ Effective' = Effective + 1
              ELSE /\ Emitted = PendingAt(Effective) \o <<IndentAt(Effective) \o HeadHere>>
                   /\ Effective' = Effective]_vars
    /\ [][(ScanStep /\ ~IsInterpolation /\ CharAt(trimmed, i) = "{") =>
              /\ Emitted = PendingAt(Effective) \o <<IndentAt(Effective) \o <<"{">>>>
              /\ Effective' = Effective + 1]_vars
    /\ [][(ScanStep /\ CharAt(trimmed, i) = "}") =>
              /\ Emitted = PendingAt(Effective) \o <<IndentAt(Max(Effective - 1, 0)) \o <<"}">>>>
              /\ Effective' = Max(Effective - 1, 0)]_vars
    /\ [][(pc = "scan" /\ pc' = "line") =>
              /\ Emitted = PendingAt(Effective)
              /\ Len(expanded') > 0
              /\ result' = result \o expanded'
              /\ depth' = Effective]_vars

\* inside one open block the line a@if{: the pending text, the directive head
\* and its brace all at depth 1, the depth left at 2
C13_FlushHeadBrace ==
    /\ pc = "line"
    /\ pass = 1
    /\ li = 2
    /\ lines = <<OpenerLine, <<"a">> \o AtIf \o <<"{">>>>
    /\ expanded = <<indentUnit \o <<"a">>, indentUnit \o AtIf, indentUnit \o <<"{">>>>
    /\ result = <<AtIf \o <<" ", "(", "x", ")">>, <<"{">>>> \o expanded
    /\ depth = 2

\* the characters of s that are no blank, tab, carriage return or line feed, in order
IsInk(c) == c \notin {SP, TAB, CR, NL}
NonSpace(s) == SelectSeq(s, IsInk)

\* C14: content preservation: when formatAngularTemplate returns, the
\* non-whitespace characters of its output are those of its input, in the same
\* order and number: only whitespace and line breaks are added or removed.
C14_ContentPreserved == Returned => NonSpace(output) = NonSpace(content)

\* malformed input: three closers behind two openers, the last clamped at depth
\* 0; the output differs from the input, in whitespace and line breaks only
C14_ClampedRun ==
    /\ FirstRun
    /\ lines = <<OpenerLine, OpenerLine, Closers(3)>>
    /\ Len(result) = 7
    /\ output # content
    /\ NonSpace(output) = NonSpace(content)

====
